---- MODULE Spec2Model ----
(***************************************************************************)
(* Model of src/main.py: class DoubleEntryLedger, a double-entry ledger    *)
(* over named accounts.  The ledger owns a list of transactions and a      *)
(* dict of balances.  A Python dict keeps its keys in insertion order, so  *)
(* the dict is modelled as a sequence of [key, val] entries with unique    *)
(* keys.  Amounts are Python ints (unbounded, exact arithmetic), as in     *)
(* every call of the source.                                               *)
(***************************************************************************)
EXTENDS Integers, Sequences, FiniteSets, TLC

(* ---- bounds of the model ---- *)
MaxTransfers == 2
MaxCallsAnyTable == 1

Accounts == {"Tank_A", "Tank_B", "Environment"}
Descriptions == {"fill"}
Amounts == {0 - 1, 0, 2}

VARIABLES
  transactions,   \* self.transactions: list of transaction dicts
  balances,       \* self.balances: insertion-ordered dict account -> balance
  ret,            \* the last call made on the ledger and the value it returned
  callLog,        \* history variable: the arguments of every record_transfer call
  running         \* the record_transfer call in progress and the line it has reached

vars == <<transactions, balances, ret, callLog, running>>

(* ---- Python dict, as an insertion-ordered sequence of entries ---- *)

Keys(d) == {d[i].key : i \in DOMAIN d}

\* d.get(k, default)
DictGet(d, k, default) ==
  IF k \in Keys(d) THEN d[CHOOSE i \in DOMAIN d : d[i].key = k].val ELSE default

\* d[k] = v that re-inserts an existing key at the end of the dict
DictSetMoveToEnd(d, k, v) ==
  Append(SelectSeq(d, LAMBDA e : e.key # k), [key |-> k, val |-> v])

\* d[k] = v: an existing key keeps its position, a new key goes to the end
DictSet(d, k, v) ==
  IF k \in Keys(d)
    THEN [i \in DOMAIN d |-> IF d[i].key = k THEN [key |-> k, val |-> v] ELSE d[i]]
    ELSE Append(d, [key |-> k, val |-> v])

\* l.insert(0, x)
ListInsertFront(l, x) == <<x>> \o l

\* l.append(x)
ListAppend(l, x) == Append(l, x)

\* d.values()
DictValues(d) == [i \in DOMAIN d |-> d[i].val]

\* sum(s) of a sequence of numbers
RECURSIVE sum(_)
sum(s) == IF s = <<>> THEN 0 ELSE Head(s) + sum(Tail(s))

(* ---- __init__ ---- *)

Init ==
  /\ transactions = <<>>
  /\ balances = <<>>
  /\ ret = [op |-> "__init__", args |-> <<>>, val |-> "None"]
  /\ callLog = <<>>
  /\ running = [pc |-> "idle", args |-> <<>>]

(* ---- record_transfer ---- *)

\* the transaction dict built from the arguments
Transaction(description, from_account, to_account, amount) ==
  [description |-> description, from |-> from_account,
   to |-> to_account, amount |-> amount]

\* a debit that rebinds self.balances to a new dict holding the source alone
DebitResetsTable(b, from_account, amount) ==
  <<[key |-> from_account, val |-> DictGet(b, from_account, 0) - amount]>>

\* a debit that never lets the source go below 0
DebitClamped(b, from_account, amount) ==
  DictSet(b, from_account,
          IF DictGet(b, from_account, 0) - amount < 0 THEN 0
          ELSE DictGet(b, from_account, 0) - amount)

\* a debit that forgets the balance already stored for the source
DebitFromZero(b, from_account, amount) ==
  DictSet(b, from_account, 0 - amount)

\* line 25: decrease the source
Debit(b, from_account, amount) ==
  DictSet(b, from_account, DictGet(b, from_account, 0) - amount)

\* a credit written with the sign of the debit
CreditAsDebit(b, to_account, amount) ==
  DictSet(b, to_account, DictGet(b, to_account, 0) - amount)

\* a credit that deletes the destination's entry when its balance becomes 0
CreditDeletesZero(b, to_account, amount) ==
  IF DictGet(b, to_account, 0) + amount = 0
    THEN SelectSeq(b, LAMBDA e : e.key # to_account)
    ELSE DictSet(b, to_account, DictGet(b, to_account, 0) + amount)

\* a credit that stores the amount in place of the new balance
CreditOverwrites(b, to_account, amount) ==
  DictSet(b, to_account, amount)

\* line 26: increase the destination
Credit(b, to_account, amount) ==
  DictSet(b, to_account, DictGet(b, to_account, 0) + amount)

\* the two balance updates made with the absolute value of the amount
UpdateBalancesAbs(b, from_account, to_account, amount) ==
  Credit(Debit(b, from_account, IF amount < 0 THEN 0 - amount ELSE amount),
         to_account, IF amount < 0 THEN 0 - amount ELSE amount)

\* the two balance updates with source and destination exchanged
UpdateBalancesSwapped(b, from_account, to_account, amount) ==
  Credit(Debit(b, to_account, amount), from_account, amount)

\* both new balances computed from the table as it was before the call
UpdateBalancesFromSnapshot(b, from_account, to_account, amount) ==
  DictSet(DictSet(b, from_account, DictGet(b, from_account, 0) - amount),
          to_account, DictGet(b, to_account, 0) + amount)

\* the two balance updates, the second reading what the first wrote
UpdateBalances(b, from_account, to_account, amount) ==
  Credit(Debit(b, from_account, amount), to_account, amount)

\* record_transfer with input validation: rejects a non-positive amount and
\* a transfer from an account to itself before touching the state
record_transfer_validated(description, from_account, to_account, amount) ==
  /\ amount > 0
  /\ from_account # to_account
  /\ callLog' = Append(callLog, <<description, from_account, to_account, amount>>)
  /\ transactions' =
       ListAppend(transactions, Transaction(description, from_account, to_account, amount))
  /\ balances' = UpdateBalances(balances, from_account, to_account, amount)
  /\ ret' = [op |-> "record_transfer",
             args |-> <<description, from_account, to_account, amount>>,
             val |-> "None"]
  /\ UNCHANGED running

record_transfer(description, from_account, to_account, amount) ==
  /\ callLog' = Append(callLog, <<description, from_account, to_account, amount>>)
  /\ transactions' =
       ListAppend(transactions, Transaction(description, from_account, to_account, amount))
  /\ balances' = UpdateBalances(balances, from_account, to_account, amount)
  /\ ret' = [op |-> "record_transfer",
             args |-> <<description, from_account, to_account, amount>>,
             val |-> "None"]
  /\ UNCHANGED running

(* ---- the read operations ---- *)

\* get_balance with -1 as the value of an unknown account
get_balance_value_sentinel(account) == DictGet(balances, account, 0 - 1)

\* value returned by get_balance(account)
get_balance_value(account) == DictGet(balances, account, 0)

\* the (account, balance) pairs print_balances iterates over, in order
balances_items == [i \in DOMAIN balances |-> <<balances[i].key, balances[i].val>>]

\* value returned by verify_conservation()
verify_conservation_value == sum(DictValues(balances))

\* get_balance on a table that creates the entry it is asked for
\* (self.balances.setdefault(account, 0), or a defaultdict)
get_balance_setdefault(account) ==
  /\ ret' = [op |-> "get_balance", args |-> <<account>>,
             val |-> get_balance_value(account)]
  /\ balances' = IF account \in Keys(balances) THEN balances
                 ELSE Append(balances, [key |-> account, val |-> 0])
  /\ UNCHANGED <<transactions, callLog, running>>

get_balance(account) ==
  /\ ret' = [op |-> "get_balance", args |-> <<account>>,
             val |-> get_balance_value(account)]
  /\ UNCHANGED <<transactions, balances, callLog, running>>

print_balances ==
  /\ ret' = [op |-> "print_balances", args |-> <<>>, val |-> balances_items]
  /\ UNCHANGED <<transactions, balances, callLog, running>>

\* verify_conservation under a lock that record_transfer holds from its
\* first line to its last
verify_conservation_locked ==
  /\ running.pc = "idle"
  /\ ret' = [op |-> "verify_conservation", args |-> <<>>,
             val |-> verify_conservation_value]
  /\ UNCHANGED <<transactions, balances, callLog, running>>

verify_conservation ==
  /\ ret' = [op |-> "verify_conservation", args |-> <<>>,
             val |-> verify_conservation_value]
  /\ UNCHANGED <<transactions, balances, callLog, running>>

(* ---- specification ---- *)

\* the calls a single-threaded caller makes, each running to completion;
\* the number of record_transfer calls is capped by MaxTransfers
Next ==
  \/ \E description \in Descriptions, from_account \in Accounts,
        to_account \in Accounts, amount \in Amounts :
       /\ Len(callLog) < MaxTransfers
       /\ record_transfer(description, from_account, to_account, amount)
  \/ \E account \in Accounts : get_balance(account)
  \/ print_balances
  \/ verify_conservation

Spec == Init /\ [][Next]_vars

(* ---- the demo: the water tank system ---- *)

\* the four record_transfer calls of the demo, in the order of the script
DemoCalls ==
  << <<"Fill Tank A from reservoir", "External_Reservoir", "Tank_A", 100>>,
     <<"Transfer from Tank A to Tank B", "Tank_A", "Tank_B", 30>>,
     <<"Pump water into Tank A", "Water_Pump_Source", "Tank_A", 20>>,
     <<"Tank B leaks to ground", "Tank_B", "Environment", 5>> >>

\* the accounts the demo names
DemoAccounts ==
  {"External_Reservoir", "Tank_A", "Tank_B", "Water_Pump_Source", "Environment"}

\* the ledger driven with the demo's transfers, each made once, in the
\* script's order or in any other, with the script's reads in between
DemoNext ==
  \/ \E i \in DOMAIN DemoCalls :
       /\ \A k \in DOMAIN callLog : callLog[k] # DemoCalls[i]
       /\ record_transfer(DemoCalls[i][1], DemoCalls[i][2], DemoCalls[i][3],
                          DemoCalls[i][4])
  \/ \E account \in DemoAccounts : get_balance(account)
  \/ print_balances
  \/ verify_conservation

DemoSpec == Init /\ [][DemoNext]_vars

(* ---- record_transfer line by line, with a reader beside it ---- *)

\* the call is entered and line 22 appends the transaction
record_transfer_append(description, from_account, to_account, amount) ==
  /\ running.pc = "idle"
  /\ callLog' = Append(callLog, <<description, from_account, to_account, amount>>)
  /\ transactions' =
       ListAppend(transactions, Transaction(description, from_account, to_account, amount))
  /\ running' = [pc |-> "debit",
                 args |-> <<description, from_account, to_account, amount>>]
  /\ UNCHANGED <<balances, ret>>

\* line 25
record_transfer_debit ==
  /\ running.pc = "debit"
  /\ balances' = Debit(balances, running.args[2], running.args[4])
  /\ running' = [running EXCEPT !.pc = "credit"]
  /\ UNCHANGED <<transactions, ret, callLog>>

\* line 26, and the return
record_transfer_credit ==
  /\ running.pc = "credit"
  /\ balances' = Credit(balances, running.args[3], running.args[4])
  /\ ret' = [op |-> "record_transfer", args |-> running.args, val |-> "None"]
  /\ running' = [pc |-> "idle", args |-> <<>>]
  /\ UNCHANGED <<transactions, callLog>>

\* one thread runs record_transfer calls line by line; the reads of another
\* thread may come between any two lines, the class taking no lock
StepNext ==
  \/ \E description \in Descriptions, from_account \in Accounts,
        to_account \in Accounts, amount \in Amounts :
       /\ Len(callLog) < MaxTransfers
       /\ record_transfer_append(description, from_account, to_account, amount)
  \/ record_transfer_debit
  \/ record_transfer_credit
  \/ \E account \in Accounts : get_balance(account)
  \/ print_balances
  \/ verify_conservation

StepSpec == Init /\ [][StepNext]_vars

(* ---- sequences of record_transfer calls ---- *)

\* the balance table after the calls of a sequence, made in its order on an
\* empty ledger
RECURSIVE Replay(_)
Replay(calls) ==
  IF calls = <<>> THEN <<>>
  ELSE LET n == Len(calls)
       IN UpdateBalances(Replay(SubSeq(calls, 1, n - 1)),
                         calls[n][2], calls[n][3], calls[n][4])

(* ---- record_transfer on any balance table ---- *)

\* the balances an external writer of ledger.balances may have stored
TamperValues == {0 - 1, 2}

\* every balance table over Accounts with those values: any subset of the
\* accounts, in any order
AnyTables ==
  UNION { { t \in [1 .. n -> [key : Accounts, val : TamperValues]] :
              \A i, j \in 1 .. n : i # j => t[i].key # t[j].key }
          : n \in 0 .. Cardinality(Accounts) }

\* a ledger whose balance table was assigned from outside
InitAnyTable ==
  /\ transactions = <<>>
  /\ balances \in AnyTables
  /\ ret = [op |-> "__init__", args |-> <<>>, val |-> "None"]
  /\ callLog = <<>>
  /\ running = [pc |-> "idle", args |-> <<>>]

AnyTableNext ==
  \/ \E description \in Descriptions, from_account \in Accounts,
        to_account \in Accounts, amount \in Amounts :
       /\ Len(callLog) < MaxCallsAnyTable
       /\ record_transfer(description, from_account, to_account, amount)
  \/ verify_conservation

AnyTableSpec == InitAnyTable /\ [][AnyTableNext]_vars

(* ---- the account history derived from the transactions ---- *)

\* sum(t['amount'] for t in transactions if t['to'] == account)
RECURSIVE gained(_, _)
gained(txns, account) ==
  IF txns = <<>> THEN 0
  ELSE (IF Head(txns).to = account THEN Head(txns).amount ELSE 0)
       + gained(Tail(txns), account)

\* sum(t['amount'] for t in transactions if t['from'] == account)
RECURSIVE lost(_, _)
lost(txns, account) ==
  IF txns = <<>> THEN 0
  ELSE (IF Head(txns).from = account THEN Head(txns).amount ELSE 0)
       + lost(Tail(txns), account)

\* expected = 0 + gained - lost
expected(account) == 0 + gained(transactions, account) - lost(transactions, account)

\* the accounts collected from the transactions
accounts == {transactions[i].from : i \in DOMAIN transactions}
            \cup {transactions[i].to : i \in DOMAIN transactions}

(* ---- helpers of the properties ---- *)

\* the step is a record_transfer call
IsTransferStep == callLog' # callLog

\* the arguments of the call a record_transfer step makes
StepArgs == callLog'[Len(callLog')]

IsPrefix(s, t) == Len(s) <= Len(t) /\ \A i \in DOMAIN s : s[i] = t[i]

(* ---- C1 ---- *)
\* C1: after every record_transfer call, in any sequence of calls from the
\* empty ledger, the sum of all balances in the table is 0, and 0 is what
\* verify_conservation returns.
C1_Conservation ==
  /\ sum(DictValues(balances)) = 0
  /\ ret.op = "verify_conservation" => ret.val = 0

C1_Witness ==
  /\ ret.op = "verify_conservation"
  /\ Len(transactions) = 2
  /\ \E a \in Accounts : DictGet(balances, a, 0) > 0
  /\ Cardinality(Keys(balances)) = 3

(* ---- C2 ---- *)
\* C2: in every reachable state, for every account A, get_balance(A) equals
\* the sum of the amounts of the recorded transfers to A minus the sum of
\* the amounts of the recorded transfers from A.
C2_BalanceReconstruction ==
  \A a \in Accounts : get_balance_value(a) = expected(a)

C2_Witness ==
  \E a \in Accounts :
    /\ gained(transactions, a) # 0
    /\ lost(transactions, a) # 0
    /\ get_balance_value(a) # 0
    /\ ret.op = "get_balance" /\ ret.args = <<a>>

(* ---- C3 ---- *)
\* C3: the history is append-only: its length is the number of
\* record_transfer calls made so far, its k-th record holds the description,
\* from, to and amount of the k-th call, and every step leaves the earlier
\* history as a prefix of the later one.
C3_HistoryMatchesCalls ==
  /\ Len(transactions) = Len(callLog)
  /\ \A k \in DOMAIN transactions :
       /\ transactions[k].description = callLog[k][1]
       /\ transactions[k].from = callLog[k][2]
       /\ transactions[k].to = callLog[k][3]
       /\ transactions[k].amount = callLog[k][4]
       /\ DOMAIN transactions[k] = {"description", "from", "to", "amount"}

C3_AppendOnly ==
  /\ []C3_HistoryMatchesCalls
  /\ [][IsPrefix(transactions, transactions')]_vars

C3_Witness ==
  /\ Len(transactions) = 2
  /\ transactions[1] # transactions[2]
  /\ ret.op = "print_balances"

(* ---- C4 ---- *)
\* C4: every record_transfer call appends one record and updates the
\* balances of from_account and to_account only: both are in the table
\* afterwards, debited and credited by the amount, and every other account
\* keeps its balance and its presence in, or absence from, the table.
C4_Effect ==
  LET f == StepArgs[2]
      t == StepArgs[3]
      a == StepArgs[4]
  IN /\ Len(transactions') = Len(transactions) + 1
     /\ \A x \in Accounts \ {f, t} :
          /\ (x \in Keys(balances')) = (x \in Keys(balances))
          /\ DictGet(balances', x, 0) = DictGet(balances, x, 0)
     /\ Keys(balances') = Keys(balances) \cup {f, t}
     /\ Len(balances') = Cardinality(Keys(balances'))
     /\ f # t => /\ DictGet(balances', f, 0) = DictGet(balances, f, 0) - a
                 /\ DictGet(balances', t, 0) = DictGet(balances, t, 0) + a

C4_Frame == [][IsTransferStep => C4_Effect]_vars

C4_Witness ==
  /\ ret.op = "record_transfer"
  /\ Len(transactions) = 2
  /\ Cardinality(Keys(balances)) = 3
  /\ \E x \in Keys(balances) \ {ret.args[2], ret.args[3]} : DictGet(balances, x, 0) # 0

(* ---- C5 ---- *)
\* C5: record_transfer never rejects: while the model's cap on the number
\* of calls is not reached it is enabled for every description, every pair
\* of accounts (equal or not, known or not) and every amount (negative,
\* zero, positive), and every call appends its record and applies both
\* balance updates, so no call leaves the state unchanged.
C5_AlwaysEnabled ==
  Len(callLog) < MaxTransfers =>
    \A d \in Descriptions, f \in Accounts, t \in Accounts, a \in Amounts :
      ENABLED record_transfer(d, f, t, a)

C5_Applied ==
  LET d == StepArgs[1]
      f == StepArgs[2]
      t == StepArgs[3]
      a == StepArgs[4]
  IN /\ transactions' = Append(transactions,
                               [description |-> d, from |-> f, to |-> t, amount |-> a])
     /\ {f, t} \subseteq Keys(balances')
     /\ DictGet(balances', f, 0) = DictGet(balances, f, 0) - (IF f = t THEN 0 ELSE a)
     /\ DictGet(balances', t, 0) = DictGet(balances, t, 0) + (IF f = t THEN 0 ELSE a)
     /\ <<transactions, balances>>' # <<transactions, balances>>

C5_NeverRejects ==
  /\ []C5_AlwaysEnabled
  /\ [][IsTransferStep => C5_Applied]_vars

C5_Witness ==
  /\ ret.op = "record_transfer"
  /\ Len(transactions) = 2
  /\ ret.args[2] = ret.args[3]
  /\ ret.args[4] < 0
  /\ transactions[1].amount = 0
  /\ transactions[1].from \notin {ret.args[2]}

(* ---- C6 ---- *)
\* C6: get_balance(A) returns the balance stored in the table for A when A
\* is the from or the to of at least one recorded transfer, and returns 0
\* when no recorded transfer names A.
C6_GetBalance ==
  ret.op = "get_balance" =>
    LET a == ret.args[1]
    IN IF a \in accounts
         THEN \E i \in DOMAIN balances : balances[i].key = a /\ balances[i].val = ret.val
         ELSE ret.val = 0

C6_Witness ==
  /\ ret.op = "get_balance"
  /\ ret.args[1] \in accounts
  /\ ret.val < 0
  /\ Len(transactions) = 2

(* ---- C7 ---- *)
\* C7: get_balance, print_balances and verify_conservation leave the
\* transactions and the balance table unchanged (get_balance on an unknown
\* account adds no entry), so every read asked again after any number of
\* reads, with no record_transfer in between, returns the same result.
ReadOps == {"get_balance", "print_balances", "verify_conservation"}

C7_ReadStep ==
  /\ transactions' = transactions
  /\ balances' = balances
  /\ \A a \in Accounts : get_balance_value(a)' = get_balance_value(a)
  /\ balances_items' = balances_items
  /\ verify_conservation_value' = verify_conservation_value
  /\ ret'.op = "get_balance" => ret'.val = DictGet(balances', ret'.args[1], 0)
  /\ ret'.op = "print_balances" => ret'.val = balances_items'
  /\ ret'.op = "verify_conservation" => ret'.val = verify_conservation_value'

C7_ReadsPure == [][ret'.op \in ReadOps => C7_ReadStep]_vars

C7_Witness ==
  /\ ret.op = "get_balance"
  /\ ret.args[1] \notin Keys(balances)
  /\ Len(transactions) = 1
  /\ Len(balances) = 2

(* ---- C8 ---- *)
\* C8: the balance table lists the accounts in the order of their first
\* reference by a record_transfer call (within a call, from_account before
\* to_account), and no step changes the position of an account already in
\* the table.
AddIfNew(s, x) == IF \E i \in DOMAIN s : s[i] = x THEN s ELSE Append(s, x)

RECURSIVE FirstSeen(_)
FirstSeen(calls) ==
  IF calls = <<>> THEN <<>>
  ELSE LET n == Len(calls)
       IN AddIfNew(AddIfNew(FirstSeen(SubSeq(calls, 1, n - 1)), calls[n][2]), calls[n][3])

C8_OrderIsFirstSeen ==
  [i \in DOMAIN balances |-> balances[i].key] = FirstSeen(callLog)

C8_FirstSeenOrder ==
  /\ []C8_OrderIsFirstSeen
  /\ [][\A i \in DOMAIN balances :
          i \in DOMAIN balances' /\ balances'[i].key = balances[i].key]_vars

C8_Witness ==
  /\ Len(callLog) = 2
  /\ Len(balances) = 3
  /\ callLog[2][3] = balances[1].key
  /\ callLog[2][2] = balances[3].key
  /\ ret.op = "print_balances"

(* ---- C9 ---- *)
\* C9: an account is in the balance table exactly when at least one
\* recorded transfer names it as from or to (the table is empty at
\* construction), and no step removes an entry from the table.
C9_PresentIffReferenced == Keys(balances) = accounts

C9_Presence ==
  /\ []C9_PresentIffReferenced
  /\ [][Keys(balances) \subseteq Keys(balances')]_vars

C9_Witness ==
  /\ Len(transactions) = 2
  /\ \E a \in Keys(balances) : DictGet(balances, a, 1) = 0
  /\ \E a \in Accounts : a \notin Keys(balances)
  /\ transactions[2].amount # 0

(* ---- C10 ---- *)
\* C10: a record_transfer call with from_account = to_account leaves that
\* account's balance as it was before the call (0, with the entry created,
\* if the account was unknown), and still appends its record.
C10_Effect ==
  LET f == StepArgs[2]
  IN /\ DictGet(balances', f, 0) = DictGet(balances, f, 0)
     /\ f \in Keys(balances')
     /\ f \notin Keys(balances) => DictGet(balances', f, 1) = 0
     /\ Len(transactions') = Len(transactions) + 1
     /\ transactions'[Len(transactions')].from = f
     /\ transactions'[Len(transactions')].to = f
     /\ transactions'[Len(transactions')].amount = StepArgs[4]

C10_SelfTransfer ==
  [][IsTransferStep /\ StepArgs[2] = StepArgs[3] => C10_Effect]_vars

C10_Witness ==
  /\ ret.op = "record_transfer"
  /\ ret.args[2] = ret.args[3]
  /\ ret.args[4] # 0
  /\ Len(transactions) = 2
  /\ DictGet(balances, ret.args[2], 0) # 0

(* ---- C11 ---- *)
\* C11: the demo's four transfers, made in the script's order from the
\* empty ledger, give reservoir -100 and Tank A 100 after the first, Tank A
\* 70 and Tank B 30 after the second, Tank A 90 and pump source -20 after
\* the third, Tank B 25 and environment 5 after the fourth; the sum of the
\* balances is 0 after each of them, and at the end it is the sum over the
\* demo's five accounts.
DemoDone(k) == callLog = SubSeq(DemoCalls, 1, k)

C11_Demo ==
  /\ DemoDone(1) => /\ get_balance_value("External_Reservoir") = 0 - 100
                    /\ get_balance_value("Tank_A") = 100
                    /\ verify_conservation_value = 0
  /\ DemoDone(2) => /\ get_balance_value("Tank_A") = 70
                    /\ get_balance_value("Tank_B") = 30
                    /\ verify_conservation_value = 0
  /\ DemoDone(3) => /\ get_balance_value("Tank_A") = 90
                    /\ get_balance_value("Water_Pump_Source") = 0 - 20
                    /\ verify_conservation_value = 0
  /\ DemoDone(4) => /\ get_balance_value("Tank_B") = 25
                    /\ get_balance_value("Environment") = 5
                    /\ verify_conservation_value = 0
                    /\ Keys(balances) = DemoAccounts
                    /\ Len(balances) = 5
                    /\ ret.op = "verify_conservation" => ret.val = 0

C11_Witness ==
  /\ DemoDone(4)
  /\ ret.op = "verify_conservation"
  /\ balances_items = << <<"External_Reservoir", 0 - 100>>, <<"Tank_A", 90>>,
                         <<"Tank_B", 25>>, <<"Water_Pump_Source", 0 - 20>>,
                         <<"Environment", 5>> >>

(* ---- C12 ---- *)
\* C12: from any balance table, reachable from the empty ledger or not,
\* record_transfer leaves the sum of all balances as it was: a sum S before
\* the call is S after it, so a sum of 0 stays 0.
C12_SumPreserved ==
  [][IsTransferStep =>
       sum(DictValues(balances')) = sum(DictValues(balances))]_vars

C12_Witness ==
  /\ ret.op = "record_transfer"
  /\ ret.args[2] # ret.args[3]
  /\ ret.args[4] # 0
  /\ Len(balances) = 3
  /\ sum(DictValues(balances)) = 3

(* ---- C13 ---- *)
\* C13: a negative amount inverts the direction of the transfer: from any
\* balance table, record_transfer(d, A, B, -x) leaves every account with the
\* balance that record_transfer(d, B, A, x) leaves it with.
C13_Inverted ==
  LET f == StepArgs[2]
      t == StepArgs[3]
      a == StepArgs[4]
  IN \A x \in Accounts :
       DictGet(balances', x, 0) = DictGet(UpdateBalances(balances, t, f, 0 - a), x, 0)

C13_NegativeInverts == [][IsTransferStep => C13_Inverted]_vars

C13_Witness ==
  /\ ret.op = "record_transfer"
  /\ ret.args[4] < 0
  /\ ret.args[2] # ret.args[3]
  /\ ret.args[2] \in Keys(balances)
  /\ DictGet(balances, ret.args[2], 0) = 3
  /\ Len(balances) = 2

(* ---- C14 ---- *)
\* C14: record_transfer makes its three effects one after the other, the
\* append, then the debit of from_account, then the credit of to_account,
\* and holds no lock: a read is possible between any two of them, and
\* between the debit and the credit of a transfer of a non-zero amount
\* between two distinct accounts the sum of the balances, which is what
\* verify_conservation returns to a reader there, is not 0.
C14_TransferPartial ==
  /\ running.pc = "credit"
  /\ running.args[2] # running.args[3]
  /\ running.args[4] # 0

C14_Order ==
  /\ running.pc = "idle" => sum(DictValues(balances)) = 0
  /\ running.pc \in {"debit", "credit"} =>
       /\ Len(transactions) = Len(callLog)
       /\ transactions[Len(transactions)].from = running.args[2]
       /\ transactions[Len(transactions)].to = running.args[3]
       /\ transactions[Len(transactions)].amount = running.args[4]
  /\ running.pc = "debit" => sum(DictValues(balances)) = 0
  /\ running.pc = "credit" => sum(DictValues(balances)) = 0 - running.args[4]
  /\ C14_TransferPartial => sum(DictValues(balances)) # 0
  /\ ENABLED verify_conservation
  /\ \A a \in Accounts : ENABLED get_balance(a)

C14_MidUpdate ==
  /\ []C14_Order
  /\ [][C14_TransferPartial /\ running' = running /\ ret'.op = "verify_conservation"
          => ret'.val # 0]_vars

C14_Witness ==
  /\ C14_TransferPartial
  /\ ret.op = "verify_conservation"
  /\ ret.val # 0
  /\ Len(callLog) = 2

(* ---- C15 ---- *)
\* C15: the balance of every account depends on which record_transfer
\* calls were made, not on their order: the calls made so far, made in any
\* other order on an empty ledger, give every account the balance it has
\* now (the order of the accounts in the table may differ).
Perms(n) == {p \in [1 .. n -> 1 .. n] : \A i, j \in 1 .. n : i # j => p[i] # p[j]}

Permuted(calls, p) == [i \in 1 .. Len(calls) |-> calls[p[i]]]

SameBalances(b1, b2) == \A x \in Accounts : DictGet(b1, x, 0) = DictGet(b2, x, 0)

KeyOrder(b) == [i \in DOMAIN b |-> b[i].key]

C15_OrderIndependent ==
  \A p \in Perms(Len(callLog)) :
    SameBalances(Replay(Permuted(callLog, p)), balances)

C15_Witness ==
  /\ Len(callLog) = 2
  /\ callLog[1][4] < 0 /\ callLog[2][4] > 0
  /\ callLog[2][2] = callLog[1][3]
  /\ callLog[2][3] # callLog[1][2]
  /\ Len(balances) = 3
  /\ KeyOrder(Replay(<<callLog[2], callLog[1]>>)) # KeyOrder(balances)
  /\ ret.op = "print_balances"

====
